---- MODULE Spec2Model ----
(***************************************************************************)
(* Model of the HR assistant's session loop (src/main.py): the leave draft *)
(* leave_state, conversation_context["active_flow"], the slot-filling step *)
(* leave_agent, the sinks submit_leave / submit_feedback and the router    *)
(* universal_agent. The language-model calls and the spreadsheet are the   *)
(* environment: their answers are chosen nondeterministically.             *)
(*                                                                         *)
(* JSON / Python values are tagged records [t, v]: None, str, int.         *)
(***************************************************************************)
EXTENDS Integers, Sequences, FiniteSets, TLC

VARIABLES
    leave_state,    \* the global draft dict (main.py:38-46)
    active_flow,    \* conversation_context["active_flow"] (main.py:423)
    pc,             \* "input": blocked in input(); "exited": loop left
    leave_rows,     \* number of rows appended to the leave sheet
    last,           \* what the last processed turn did (its branch and outcome)
    call            \* the leave_agent call of an observed LEAVE turn (SpecAgent)

vars == <<leave_state, active_flow, pc, leave_rows, last, call>>

----------------------------------------------------------------------------
(* Bounds of the model *)

\* leave rows the sheet accepts before the sink only fails
MaxRows == 2
\* day counts the oracle may return are -1..MaxDays
MaxDays == 1
\* end dates the oracle may return are FirstDay..FirstDay+MaxSpan
MaxSpan == 1

\* day of January 2026 used in the prompt's date example ("8 Jan 2026")
FirstDay == 8

----------------------------------------------------------------------------
(* Python values *)

None == [t |-> "null", v |-> "None"]
Str(s) == [t |-> "str", v |-> s]
Num(n) == [t |-> "int", v |-> n]
\* the marker of a raised exception, as the value of an expression
Raised == [t |-> "raise", v |-> "Exception"]

\* bool(x): None, 0 and "" are falsy
Truthy(x) ==
    CASE x.t = "null" -> FALSE
      [] x.t = "int"  -> x.v # 0
      [] x.t = "str"  -> x.v # ""
      [] OTHER        -> TRUE

\* str(x)
PyStr(x) ==
    CASE x.t = "null" -> Str("None")
      [] x.t = "int"  -> Str(ToString(x.v))
      [] OTHER        -> x

\* the integers whose decimal text int() is asked to parse in this model
IntLiterals == (0 - 1)..(MaxDays + 1)

\* int(x): an int is itself, a decimal string parses, anything else raises
PyInt(x) ==
    CASE x.t = "int" -> x
      [] x.t = "str" ->
            IF \E n \in IntLiterals : ToString(n) = x.v
            THEN Num(CHOOSE n \in IntLiterals : ToString(n) = x.v)
            ELSE Raised
      [] OTHER -> Raised

\* "YYYY-MM-DD" text of a day of January 2026
DateStr(n) == "2026-01-" \o (IF n < 10 THEN "0" ELSE "") \o ToString(n)

----------------------------------------------------------------------------
(* The draft *)

Fields == {"employee_id", "employee_name", "leave_type", "start_date",
           "end_date", "number_of_days", "comments"}

\* required (main.py:217)
required == <<"employee_id", "employee_name", "leave_type", "start_date",
              "end_date", "number_of_days">>

Required == {required[i] : i \in 1..Len(required)}

\* leave_state as constructed (main.py:38-46)
EmptyDraft == [f \in Fields |-> None]

\* values the extraction oracle may put in each field of updated_state
IdValues == {None, Str("482")}
NameValues == {None, Str("John Doe")}
TypeValues == {None, Str("sick")}
StartValues == {None, Str(DateStr(FirstDay))}
EndValues == {None} \cup {Str(DateStr(FirstDay + i)) : i \in 0..MaxSpan}
DayValues == {None, Str("abc")} \cup {Num(n) : n \in (0 - 1)..MaxDays}
CommentValues == {None, Str("flu")}

Candidates ==
    [employee_id : IdValues, employee_name : NameValues,
     leave_type : TypeValues, start_date : StartValues, end_date : EndValues,
     number_of_days : DayValues, comments : CommentValues]


\* drafts the loop can hold while it waits for input: the seven keys, values
\* the oracle supplied, and never all six required fields truthy at once
\* (a complete draft is submitted or dropped within its turn)
StoredDrafts ==
    {d \in Candidates : \E i \in 1..Len(required) : ~Truthy(d[required[i]])}

----------------------------------------------------------------------------
(* The extraction oracle (leave mode): client.chat.completions.create and  *)
(* json.loads, main.py:195-205                                             *)

\* the reply of the exception path (main.py:244)
RetryPrompt == "Sorry, I didn't catch that. Could you repeat?"
\* the oracle's own conversational text, opaque to the program
OracleMessage == "<conversational response>"
\* texts the oracle is told to use for data["message"] (178-186)
OracleMessages ==
    {OracleMessage, "What's your employee ID and name?",
     "And what's your name?", "When would you like to take leave?"}

\* kind: "raise" (the call raises), "bad_json" (json.loads raises),
\* "not_object" (the JSON value is no dict), "no_updated_state" (a dict
\* without the key), "bad_updated_state" (the key holds no dict: .items()
\* raises), "object" (a dict with a dict under updated_state).
\* status is the oracle's own data["status"], message its data["message"].
FailureKinds == {"raise", "bad_json", "not_object", "bad_updated_state"}

Responses(candidates, statuses, messages) ==
    [kind : FailureKinds \cup {"no_updated_state"},
     updated_state : {EmptyDraft}, status : {"missing"},
     message : {OracleMessage}]
    \cup [kind : {"object"}, updated_state : candidates, status : statuses,
          message : messages]

\* the responses drawn when leave_agent is examined call by call
LeaveResponses ==
    Responses(Candidates, {"missing", "complete"}, {OracleMessage})

\* the responses drawn in the session loop: every field null or one
\* well-typed value, the dates and the day count consistent, and an oracle
\* that always claims the draft complete
SessionCandidates ==
    [employee_id : IdValues, employee_name : NameValues,
     leave_type : TypeValues, start_date : StartValues,
     end_date : {None, Str(DateStr(FirstDay))},
     number_of_days : {None, Num(1)}, comments : CommentValues]

SessionResponses ==
    Responses(SessionCandidates, {"complete"}, {OracleMessage})

\* the responses drawn when the reply of a LEAVE turn is examined: the
\* candidates of the session loop, each with every text of the oracle
PromptResponses ==
    Responses(SessionCandidates, {"missing"}, OracleMessages)

----------------------------------------------------------------------------
(* leave_agent, main.py:132-246 *)

MergeDropsNone(current_state, updated_state) ==
    [k \in DOMAIN current_state |-> updated_state[k]]

MergeKeepsFilled(current_state, updated_state) ==
    [k \in DOMAIN current_state |->
        IF current_state[k] = None THEN updated_state[k] ELSE current_state[k]]

\* merged = current_state.copy(); every non-None value overwrites (211-215)
Merge(current_state, updated_state) ==
    [k \in DOMAIN current_state |->
        IF updated_state[k] # None THEN updated_state[k] ELSE current_state[k]]

IsCompleteNotNone(updated) ==
    \A i \in 1..Len(required) : updated[required[i]] # None

\* is_complete = all(updated.get(f) for f in required) (220)
IsComplete(updated) ==
    \A i \in 1..Len(required) : Truthy(updated[required[i]])

\* data["leave_data"] (224-232); Raised when int() raises
LeaveData(updated) ==
    IF PyInt(updated.number_of_days) = Raised THEN Raised
    ELSE [employee_id |-> PyStr(updated.employee_id),
          employee_name |-> PyStr(updated.employee_name),
          leave_type |-> PyStr(updated.leave_type),
          start_date |-> PyStr(updated.start_date),
          end_date |-> PyStr(updated.end_date),
          number_of_days |-> PyInt(updated.number_of_days),
          comments |-> PyStr(updated.comments)]

ExceptResultEmpty(current_state) ==
    [status |-> "missing", updated_state |-> EmptyDraft,
     message |-> RetryPrompt, leave_data |-> None]

\* the except branch's return value (239-246)
ExceptResult(current_state) ==
    [status |-> "missing", updated_state |-> current_state,
     message |-> RetryPrompt, leave_data |-> None]

\* data["updated_state"] after lines 208-215, Raised when they raise
UpdatedState(resp, current_state) ==
    CASE resp.kind \in FailureKinds -> Raised
      [] resp.kind = "no_updated_state" -> current_state
      [] OTHER -> Merge(current_state, resp.updated_state)

LeaveAgentTrustsOracle(resp, current_state) ==
    LET updated == UpdatedState(resp, current_state)
    IN  CASE updated = Raised -> ExceptResult(current_state)
          [] updated # Raised
             /\ (resp.status = "missing" \/ ~IsComplete(updated)) ->
                [status |-> "missing", updated_state |-> updated,
                 message |-> resp.message, leave_data |-> None]
          [] OTHER ->
                IF LeaveData(updated) = Raised
                THEN ExceptResult(current_state)
                ELSE [status |-> "complete", updated_state |-> updated,
                      message |-> resp.message,
                      leave_data |-> LeaveData(updated)]

\* the value leave_agent returns for the oracle response resp
leave_agent(resp, current_state) ==
    LET updated == UpdatedState(resp, current_state)
    IN  CASE updated = Raised -> ExceptResult(current_state)
          [] updated # Raised /\ ~IsComplete(updated) ->
                [status |-> "missing", updated_state |-> updated,
                 message |-> resp.message, leave_data |-> None]
          [] OTHER ->
                IF LeaveData(updated) = Raised
                THEN ExceptResult(current_state)
                ELSE [status |-> "complete", updated_state |-> updated,
                      message |-> resp.message,
                      leave_data |-> LeaveData(updated)]

----------------------------------------------------------------------------
(* submit_leave, main.py:248-265 *)

\* the row handed to sheet.append_row (251-262); the submission date
\* (datetime.now()) is not modelled
LeaveRow(data) ==
    <<PyStr(data.employee_id).v, PyStr(data.employee_name).v,
      PyStr(data.leave_type).v, PyStr(data.start_date).v,
      PyStr(data.end_date).v, PyStr(data.number_of_days).v, "Pending", "",
      PyStr(data.comments).v>>

NoRow == <<>>


ResetKeepsValues(state) == state

\* leave_state = {k: None for k in leave_state} (479)
ResetDraft(state) == [k \in DOMAIN state |-> None]

\* d.update(u): every key of u overwrites (466)
DictUpdate(d, u) ==
    [k \in DOMAIN d \cup DOMAIN u |-> IF k \in DOMAIN u THEN u[k] ELSE d[k]]

----------------------------------------------------------------------------
(* Text: str.upper, str.lower, str.strip, "in", slicing and join *)

Upper(c) ==
    CASE c = "a" -> "A" [] c = "b" -> "B" [] c = "c" -> "C" [] c = "d" -> "D"
      [] c = "e" -> "E" [] c = "f" -> "F" [] c = "i" -> "I" [] c = "k" -> "K"
      [] c = "l" -> "L" [] c = "o" -> "O" [] c = "p" -> "P" [] c = "r" -> "R"
      [] c = "t" -> "T" [] c = "v" -> "V" [] c = "y" -> "Y" [] OTHER -> c

Lower(c) ==
    CASE c = "B" -> "b" [] c = "E" -> "e" [] c = "I" -> "i" [] c = "Q" -> "q"
      [] c = "T" -> "t" [] c = "U" -> "u" [] c = "X" -> "x" [] c = "Y" -> "y"
      [] OTHER -> c

RECURSIVE upper(_)
\* s.upper()
upper(s) == IF s = "" THEN "" ELSE Upper(SubSeq(s, 1, 1)) \o upper(Tail(s))

RECURSIVE lower(_)
\* s.lower()
lower(s) == IF s = "" THEN "" ELSE Lower(SubSeq(s, 1, 1)) \o lower(Tail(s))

Whitespace == {" ", "\n", "\t"}

\* s.strip()
strip(s) ==
    LET keep == {i \in 1..Len(s) : SubSeq(s, i, i) \notin Whitespace}
    IN  IF keep = {} THEN ""
        ELSE SubSeq(s, CHOOSE i \in keep : \A j \in keep : i <= j,
                       CHOOSE i \in keep : \A j \in keep : j <= i)

\* sub in s
Contains(s, sub) ==
    \E i \in 1..(Len(s) - Len(sub) + 1) : SubSeq(s, i, i + Len(sub) - 1) = sub

\* s[:n]
Prefix(s, n) == IF Len(s) <= n THEN s ELSE SubSeq(s, 1, n)

RECURSIVE Join(_, _)
\* sep.join(str(item) for item in items)
Join(sep, items) ==
    IF items = <<>> THEN ""
    ELSE IF Len(items) = 1 THEN PyStr(items[1]).v
    ELSE PyStr(items[1]).v \o sep \o Join(sep, Tail(items))

----------------------------------------------------------------------------
(* universal_agent, main.py:364-417 *)

\* valid_intents (407)
valid_intents == <<"POLICY", "LEAVE", "FEEDBACK">>

\* what the intent oracle may answer: the call raises, or the text of
\* response.choices[0].message.content
IntentAnswers ==
    {[raised |-> TRUE, content |-> ""]}
    \cup [raised : {FALSE},
          content : {"POLICY", "LEAVE", "FEEDBACK", " leave\n",
                     "Policy or Leave", "OTHER", ""}]

RouterReturnsRawAnswer(message, answer) ==
    IF answer.raised THEN "" ELSE upper(strip(answer.content))

\* the value universal_agent returns for message when the oracle answers
\* answer (365-417); the context hint only changes the prompt
universal_agent(message, answer) ==
    IF message = "" \/ strip(message) = "" THEN ""
    ELSE IF answer.raised THEN ""
    ELSE LET intent == upper(strip(answer.content))
             hits == {i \in 1..Len(valid_intents) :
                         Contains(intent, valid_intents[i])}
         IN  IF \E i \in 1..Len(valid_intents) : intent = valid_intents[i]
             THEN intent
             ELSE IF hits = {} THEN ""
             ELSE valid_intents[CHOOSE i \in hits : \A j \in hits : i <= j]

----------------------------------------------------------------------------
(* feedback_agent and submit_feedback, main.py:267-362 *)

\* a key the oracle's JSON object does not hold
Absent == [t |-> "absent", v |-> "absent"]
List(items) == [t |-> "list", v |-> items]

\* kind: "raise", "bad_json", "not_object" (data.get raises) or "object"
FeedbackResponses ==
    [kind : {"raise", "bad_json", "not_object"}, feedback : {Absent},
     sentiment : {Absent}, action_items : {Absent}]
    \cup [kind : {"object"},
          feedback : {Absent, Str("the food is cold"),
                      List(<<Str("food"), Str("cold")>>)},
          sentiment : {Absent, None, Str("Negative"), Str("angry")},
          action_items : {Absent, Str("Review serving"),
                          List(<<Str("Review"), Str("Survey")>>)}]

\* the feedback answers drawn in the session loop
SessionFeedbackResponses ==
    {r \in FeedbackResponses :
        \/ r.kind = "raise"
        \/ /\ r.kind = "object"
           /\ r.feedback = Absent
           /\ r.sentiment = Str("Negative")
           /\ r.action_items = Str("Review serving")}

\* data.setdefault(key, default): only an absent key takes the default
SetDefault(value, default) == IF value = Absent THEN default ELSE value

FeedbackAgentDropsUtterance(message, resp) ==
    [feedback |-> SetDefault(resp.feedback, Str("")),
     sentiment |-> SetDefault(resp.sentiment, Str("neutral")),
     action_items |->
         SetDefault(resp.action_items, Str("No specific action required"))]

\* the record feedback_agent returns for message when the oracle answers
\* resp (320-350)
feedback_agent(message, resp) ==
    IF resp.kind # "object"
    THEN [feedback |-> Str(message), sentiment |-> Str("neutral"),
          action_items |-> Str("No specific action required")]
    ELSE LET items == IF resp.action_items.t = "list"
                      THEN Str(Join("; ", resp.action_items.v))
                      ELSE resp.action_items
             text == IF resp.feedback.t = "list"
                     THEN Str(Join(" ", resp.feedback.v))
                     ELSE resp.feedback
         IN  [feedback |-> SetDefault(text, Str(message)),
              sentiment |-> SetDefault(resp.sentiment, Str("neutral")),
              action_items |->
                  SetDefault(items, Str("No specific action required"))]

\* the row handed to feedback_sheet.append_row (355-359)
FeedbackRow(data) ==
    <<Prefix(PyStr(data.feedback).v, 1000), PyStr(data.sentiment).v,
      Prefix(PyStr(data.action_items).v, 500)>>


----------------------------------------------------------------------------
(* The session loop, main.py:419-493 *)

\* lines input() may return
InputLines == {"", "  ", "exit", "Quit", " BYE ", "I need leave"}

\* the words that end the loop (432)
ExitWords == {"exit", "quit", "bye"}

\* the lines that are empty once stripped (427-430), the lines that are an
\* exit word (432), and user_input of the lines that are processed as an
\* utterance (436)
EmptyLines == {l \in InputLines : strip(l) = ""}
ExitLines ==
    {l \in InputLines : strip(l) # "" /\ lower(strip(l)) \in ExitWords}
Utterances == {strip(l) : l \in InputLines \ (EmptyLines \cup ExitLines)}

\* the utterances for which some answer of the intent oracle makes
\* universal_agent return intent (436)
RoutedTo(intent) ==
    {m \in Utterances :
        \E a \in IntentAnswers : universal_agent(m, a) = intent}

\* the utterances the router can send to each branch of the loop
RoutesUnknown == RoutedTo("")
RoutesPolicy == RoutedTo("POLICY")
RoutesFeedback == RoutedTo("FEEDBACK")
RoutesLeave == RoutedTo("LEAVE")

FlowKeptAfterSubmit(intent, submitted) ==
    IF intent = "LEAVE" THEN Str("LEAVE") ELSE None

\* conversation_context["active_flow"] as a turn leaves it: None when the
\* router returns "" (439), on POLICY (446) and on FEEDBACK (452), "LEAVE"
\* on LEAVE (462), None again once submit_leave has returned (480)
FlowAfter(intent, submitted) ==
    IF intent = "LEAVE" /\ ~submitted THEN Str("LEAVE") ELSE None

LoopBreaksOnError(turn) ==
    IF turn \in {"exit", "interrupt", "error"} THEN "exited" ELSE "input"

\* where the loop goes after an iteration: break on an exit word (434) and
\* on KeyboardInterrupt (490); the next input() after an empty line (430),
\* after every branch of a turn (441, 449, 459, 468, 483) and after any
\* other exception (491-493)
LoopAfter(turn) ==
    IF turn \in {"exit", "interrupt"} THEN "exited" ELSE "input"

NoCall == [kind |-> "none"]

\* what an iteration did: its branch, the line read ("" when input()
\* returned none), whether the extraction oracle failed, the reply printed,
\* the sink write ("none", "ok", "failed") and the row written
Outcome(turn, line, oracle_failed, reply, sink, row) ==
    [turn |-> turn, line |-> line, oracle_failed |-> oracle_failed,
     reply |-> reply, sink |-> sink, row |-> row]

Started == Outcome("start", "", FALSE, "HR Assistant ready.", "none", NoRow)

Init ==
    /\ leave_state = EmptyDraft
    /\ active_flow = None
    /\ pc = "input"
    /\ leave_rows = 0
    /\ last = Started
    /\ call = NoCall

\* an empty line: continue (429-430)
EmptyLine ==
    /\ pc = "input"
    /\ \E l \in EmptyLines :
          last' = Outcome("empty_line", l, FALSE, "", "none", NoRow)
    /\ pc' = LoopAfter("empty_line")
    /\ UNCHANGED <<leave_state, active_flow, leave_rows, call>>

\* exit, quit or bye: break (432-434)
Exit ==
    /\ pc = "input"
    /\ \E l \in ExitLines :
          last' = Outcome("exit", l, FALSE, "Goodbye!", "none", NoRow)
    /\ pc' = LoopAfter("exit")
    /\ UNCHANGED <<leave_state, active_flow, leave_rows, call>>

\* Ctrl-C at the prompt: break (488-490)
Interrupt ==
    /\ pc = "input"
    /\ pc' = LoopAfter("interrupt")
    /\ last' = Outcome("interrupt", "", FALSE, "Goodbye!", "none", NoRow)
    /\ UNCHANGED <<leave_state, active_flow, leave_rows, call>>

\* any other exception, as EOFError out of input(): it is printed and the
\* loop goes on (491-493)
InputError ==
    /\ pc = "input"
    /\ pc' = LoopAfter("error")
    /\ last' = Outcome("error", "", FALSE, "An unexpected error occurred",
                       "none", NoRow)
    /\ UNCHANGED <<leave_state, active_flow, leave_rows, call>>

\* the router returns "" (438-441)
UnknownTurn ==
    /\ pc = "input"
    /\ active_flow' = FlowAfter("", FALSE)
    /\ \E m \in RoutesUnknown :
          last' = Outcome("unknown", m, FALSE,
                          "I couldn't understand your request.", "none",
                          NoRow)
    /\ pc' = LoopAfter("unknown")
    /\ UNCHANGED <<leave_state, leave_rows, call>>

\* intent POLICY (445-449); policy_chat touches no session state and
\* returns a text whatever fails inside it (102-130)
PolicyTurn ==
    /\ pc = "input"
    /\ active_flow' = FlowAfter("POLICY", FALSE)
    /\ \E m \in RoutesPolicy, retrieved \in BOOLEAN :
          last' = Outcome("policy", m, FALSE,
                          IF retrieved THEN "<policy answer>"
                          ELSE "I don't have information about that policy.",
                          "none", NoRow)
    /\ pc' = LoopAfter("policy")
    /\ UNCHANGED <<leave_state, leave_rows, call>>

\* intent FEEDBACK (451-459), the feedback oracle answering from responses.
\* observe: keep in call the call's inputs (message, resp), the record
\* feedback_agent returned (result) and the rows submit_feedback handed to
\* feedback_sheet.append_row (rows)
FeedbackTurn(observe, responses) ==
    /\ pc = "input"
    /\ active_flow' = FlowAfter("FEEDBACK", FALSE)
    /\ \E m \in RoutesFeedback, resp \in responses, sink_ok \in BOOLEAN :
          LET feedback == feedback_agent(m, resp)
          IN  /\ call' = IF observe
                         THEN [kind |-> "feedback_agent", message |-> m,
                               resp |-> resp, result |-> feedback,
                               rows |-> <<FeedbackRow(feedback)>>]
                         ELSE call
              /\ last' = IF sink_ok
                         THEN Outcome("feedback", m, FALSE,
                                      "Thank you for your feedback!", "ok",
                                      NoRow)
                         ELSE Outcome("feedback", m, FALSE,
                                   "Sorry, I couldn't record your feedback.",
                                   "failed", NoRow)
    /\ pc' = LoopAfter("feedback")
    /\ UNCHANGED <<leave_state, leave_rows>>

\* intent LEAVE (461-483), the extraction oracle answering from responses.
\* observe: keep in call the call's inputs (resp, current_state), the value
\* of data["updated_state"] after the merge (merged) and the result
LeaveTurn(observe, responses) ==
    /\ pc = "input"
    /\ pc' = LoopAfter("leave")
    /\ \E m \in RoutesLeave, resp \in responses :
        LET result == leave_agent(resp, leave_state)
            failed == resp.kind \in FailureKinds
        IN  /\ call' = IF observe
                       THEN [kind |-> "leave_agent", resp |-> resp,
                             current_state |-> leave_state,
                             merged |-> UpdatedState(resp, leave_state),
                             result |-> result]
                       ELSE call
            /\ IF result.status = "missing"
               THEN /\ leave_state' =
                          DictUpdate(leave_state, result.updated_state)
                    /\ active_flow' = FlowAfter("LEAVE", FALSE)
                    /\ last' = Outcome("leave", m, failed, result.message,
                                       "none", NoRow)
                    /\ UNCHANGED leave_rows
               ELSE \E sink_ok \in BOOLEAN :
                      IF sink_ok
                      THEN /\ leave_rows < MaxRows
                           /\ leave_rows' = leave_rows + 1
                           /\ leave_state' = ResetDraft(leave_state)
                           /\ active_flow' = FlowAfter("LEAVE", TRUE)
                           /\ last' = Outcome("leave", m, failed,
                                  "Leave submitted successfully!", "ok",
                                  LeaveRow(result.leave_data))
                      ELSE /\ active_flow' = FlowAfter("LEAVE", FALSE)
                           /\ last' = Outcome("leave", m, failed,
                                  "Failed to submit leave.", "failed", NoRow)
                           /\ UNCHANGED <<leave_state, leave_rows>>

Next ==
    \/ EmptyLine
    \/ Exit
    \/ Interrupt
    \/ InputError
    \/ UnknownTurn
    \/ PolicyTurn
    \/ FeedbackTurn(FALSE, SessionFeedbackResponses)
    \/ LeaveTurn(FALSE, SessionResponses)

Spec == Init /\ [][Next]_vars

----------------------------------------------------------------------------
(* leave_agent call by call: one LEAVE turn from any draft the loop can    *)
(* hold, over the full range of oracle responses, its inputs and result    *)
(* kept in call                                                            *)

InitAgent ==
    /\ leave_state \in StoredDrafts
    /\ active_flow = None
    /\ pc = "input"
    /\ leave_rows = 0
    /\ last = Started
    /\ call = NoCall

NextAgent == call = NoCall /\ LeaveTurn(TRUE, LeaveResponses)

SpecAgent == InitAgent /\ [][NextAgent]_vars

----------------------------------------------------------------------------
(* universal_agent call by call: one call from any state the loop can be   *)
(* in, over every message and every answer of the intent oracle, its       *)
(* inputs and result kept in call                                          *)

\* messages handed to universal_agent: the input lines, and bare data a user
\* types in answer to a clarifying prompt
BareData == {"482", "2026-01-08", "3"}
RouterMessages == InputLines \cup BareData

\* drafts and active_flow values the loop can hold at a call (436)
RouterDrafts == StoredDrafts \cap SessionCandidates

InitRouter ==
    /\ leave_state \in RouterDrafts
    /\ active_flow \in {None, Str("LEAVE")}
    /\ pc = "input"
    /\ leave_rows = 0
    /\ last = Started
    /\ call = NoCall

\* universal_agent(message, conversation_context): it assigns to no global
\* and mutates neither argument (364-417)
Route ==
    /\ call = NoCall
    /\ pc = "input"
    /\ \E m \in RouterMessages, a \in IntentAnswers :
          call' = [kind |-> "universal_agent", message |-> m,
                   context |-> active_flow, draft |-> leave_state,
                   answer |-> a, intent |-> universal_agent(m, a)]
    /\ UNCHANGED <<leave_state, active_flow, pc, leave_rows, last>>

NextRouter == Route

SpecRouter == InitRouter /\ [][NextRouter]_vars

----------------------------------------------------------------------------
(* The reply of a LEAVE turn: one turn from any draft of the session loop, *)
(* the oracle free in the text it puts under "message"                     *)

InitPrompt ==
    /\ leave_state \in RouterDrafts
    /\ active_flow \in {None, Str("LEAVE")}
    /\ pc = "input"
    /\ leave_rows = 0
    /\ last = Started
    /\ call = NoCall

NextPrompt == call = NoCall /\ LeaveTurn(TRUE, PromptResponses)

SpecPrompt == InitPrompt /\ [][NextPrompt]_vars

----------------------------------------------------------------------------
(* feedback_agent call by call: one FEEDBACK turn from any state the loop  *)
(* can be in, over the full range of oracle responses, its inputs, result  *)
(* and submitted rows kept in call                                         *)

InitFeedback ==
    /\ leave_state \in RouterDrafts
    /\ active_flow \in {None, Str("LEAVE")}
    /\ pc = "input"
    /\ leave_rows = 0
    /\ last = Started
    /\ call = NoCall

NextFeedback == call = NoCall /\ FeedbackTurn(TRUE, FeedbackResponses)

SpecFeedback == InitFeedback /\ [][NextFeedback]_vars

----------------------------------------------------------------------------
(* Properties *)

\* a LEAVE turn was observed
Called == call.kind = "leave_agent"

\* the candidate field set of the observed call: the dict under
\* updated_state, or no value at all when the response holds none
Candidate ==
    IF call.resp.kind = "object" THEN call.resp.updated_state ELSE EmptyDraft

\* the observed call left through the except branch
TookExceptBranch ==
    \/ call.resp.kind \in FailureKinds
    \/ /\ \A f \in Required : Truthy(call.merged[f])
       /\ PyInt(call.merged.number_of_days) = Raised

\* C1: a field whose candidate value is null keeps the draft's value in the
\* merged state, in the state leave_agent returns, and in the session draft
\* unless the turn submitted the record.
C1_MergePreservesPriorValues ==
    Called =>
        \A f \in Fields :
            Candidate[f] = None =>
                /\ call.merged # Raised => call.merged[f] = call.current_state[f]
                /\ call.result.updated_state[f] = call.current_state[f]
                /\ last.sink # "ok" => leave_state[f] = call.current_state[f]

\* C1 witness: a candidate that fills the name and leaves a filled id null.
C1_Witness ==
    /\ Called
    /\ call.resp.kind = "object"
    /\ call.current_state.employee_id # None
    /\ Candidate.employee_id = None
    /\ Candidate.employee_name # None
    /\ call.current_state.employee_name = None
    /\ leave_state.employee_id = call.current_state.employee_id

\* C2: a field whose candidate value is non-null has that value in the
\* merged state, whatever the draft held; the state leave_agent returns and
\* the session draft have it too when the turn ends "missing" outside the
\* except branch.
C2_MergeOverwritesOnNewData ==
    (Called /\ call.resp.kind = "object") =>
        \A f \in Fields :
            Candidate[f] # None =>
                /\ call.merged[f] = Candidate[f]
                /\ ~TookExceptBranch =>
                      call.result.updated_state[f] = Candidate[f]
                /\ (~TookExceptBranch /\ call.result.status = "missing") =>
                      leave_state[f] = Candidate[f]

\* C2 witness: the candidate replaces an end date filled in an earlier turn.
C2_Witness ==
    /\ Called
    /\ call.resp.kind = "object"
    /\ call.current_state.end_date # None
    /\ Candidate.end_date # None
    /\ Candidate.end_date # call.current_state.end_date
    /\ leave_state.end_date = Candidate.end_date

\* the oracle call of the observed turn succeeded: it returned a JSON
\* object that could be merged
OracleSucceeded == call.resp.kind \in {"object", "no_updated_state"}

\* C3 as claimed: complete with a record exactly when the six required
\* fields of the merged draft are non-null, else missing without a record.
C3_CompleteIffNonNull ==
    (Called /\ OracleSucceeded) =>
        /\ (call.result.status = "complete" /\ call.result.leave_data # None)
              <=> (\A f \in Required : call.merged[f] # None)
        /\ call.result.status # "complete" =>
              (call.result.status = "missing" /\ call.result.leave_data = None)

\* C3 amended: complete with a record exactly when the six required fields
\* of the merged draft are truthy (not null, not "", not 0) and
\* number_of_days converts with int(); else missing without a record. The
\* oracle's own status plays no part.
C3_CompleteIffTruthy ==
    (Called /\ OracleSucceeded) =>
        /\ (call.result.status = "complete" /\ call.result.leave_data # None)
              <=> /\ \A f \in Required :
                        /\ call.merged[f] # None
                        /\ call.merged[f] # Str("")
                        /\ call.merged[f] # Num(0)
                  /\ PyInt(call.merged.number_of_days) # Raised
        /\ call.result.status # "complete" =>
              (call.result.status = "missing" /\ call.result.leave_data = None)

\* C3 witness: a complete result against an oracle that said "missing".
C3_Witness ==
    /\ Called
    /\ call.resp.kind = "object"
    /\ call.resp.status = "missing"
    /\ call.result.status = "complete"
    /\ call.result.leave_data # None

\* C4: when leave_agent leaves through the except branch (the oracle call
\* raises, its text is no JSON object, updated_state cannot be merged, or a
\* merged value cannot be coerced) the session draft has its pre-turn
\* values, the reply is the retry prompt, nothing is written to the sink
\* and active_flow is LEAVE.
C4_OracleFailureIsNoOp ==
    (Called /\ TookExceptBranch) =>
        /\ leave_state = call.current_state
        /\ last.reply = RetryPrompt
        /\ last.sink = "none"
        /\ leave_rows = 0
        /\ active_flow = Str("LEAVE")

\* C4 witness: malformed JSON on a turn that found a partly filled draft.
C4_Witness ==
    /\ Called
    /\ call.resp.kind = "bad_json"
    /\ call.current_state.employee_id # None
    /\ call.current_state.start_date # None
    /\ leave_state = call.current_state
    /\ last.reply = RetryPrompt

\* the last turn was routed to LEAVE
LeaveTurnDone == last.turn = "leave"

\* C5 as claimed: after a LEAVE turn whose sink write failed the session
\* draft holds the completed draft, so all six required fields are filled
\* and a following turn with an all-null candidate completes again.
C5_SinkFailureRetainsDraft ==
    (LeaveTurnDone /\ last.sink = "failed") =>
        /\ \A f \in Required : Truthy(leave_state[f])
        /\ leave_agent([kind |-> "object", updated_state |-> EmptyDraft,
                        status |-> "missing", message |-> OracleMessage],
                       leave_state).status = "complete"

\* C6: right after a LEAVE turn whose sink write succeeded every field of
\* the session draft is null and active_flow is null.
C6_ResetAfterFinalize ==
    (LeaveTurnDone /\ last.sink = "ok") =>
        /\ \A f \in Fields : leave_state[f] = None
        /\ DOMAIN leave_state = Fields
        /\ active_flow = None

\* C6 witness: the second record of a session has been submitted.
C6_Witness ==
    /\ LeaveTurnDone
    /\ last.sink = "ok"
    /\ leave_rows = 2
    /\ leave_state = EmptyDraft

\* C7: in every step, a draft field that was non-null and is null afterwards
\* was cleared by a LEAVE turn whose sink write succeeded.
C7_ClearedOnlyOnSubmission ==
    [][(\E f \in Fields : leave_state[f] # None /\ leave_state'[f] = None)
          => (last'.turn = "leave" /\ last'.sink = "ok"
              /\ leave_rows' = leave_rows + 1)]_vars

\* C7 witness: a sink failure has left a partly filled draft in place.
C7_Witness ==
    /\ LeaveTurnDone
    /\ last.sink = "failed"
    /\ leave_state.employee_id # None
    /\ leave_state.start_date # None

\* day of the month of a "YYYY-MM-DD" value of January 2026
DayOf(d) == CHOOSE n \in 1..31 : DateStr(n) = d.v

\* the date triangle over three values, each possibly null
Triangle(start, end, days) ==
    /\ (start # None /\ days # None) =>
          /\ days.t = "int"
          /\ end = Str(DateStr(DayOf(start) + days.v - 1))
    /\ (start # None /\ end # None) =>
          days = Num(DayOf(end) - DayOf(start) + 1)

\* C8 as claimed: the date triangle holds in every session draft and in
\* every row handed to the leave sheet.
C8_DateTriangle ==
    /\ Triangle(leave_state.start_date, leave_state.end_date,
                leave_state.number_of_days)
    /\ (LeaveTurnDone /\ last.sink = "ok") =>
          last.row[6] = ToString(DayOf(Str(last.row[5]))
                                 - DayOf(Str(last.row[4])) + 1)

\* C9 as claimed: after a LEAVE turn that merged a candidate and left the
\* draft in place, the third date value is derived from the other two, so
\* no draft with the four other required fields and two date values stays
\* incomplete.
C9_DateDerivation ==
    (LeaveTurnDone /\ ~last.oracle_failed /\ last.sink = "none") =>
        /\ (leave_state.start_date # None
            /\ leave_state.number_of_days # None) =>
              leave_state.end_date =
                  Str(DateStr(DayOf(leave_state.start_date)
                              + leave_state.number_of_days.v - 1))
        /\ (leave_state.start_date # None /\ leave_state.end_date # None) =>
              leave_state.number_of_days =
                  Num(DayOf(leave_state.end_date)
                      - DayOf(leave_state.start_date) + 1)

\* C10: a step appends a leave row exactly when it resets a draft: the row
\* count grows by one only in a submitting LEAVE turn that leaves the empty
\* draft behind, and a filled draft becomes empty only in such a turn.
C10_OneRowPerCompletedDraft ==
    [][/\ leave_rows' # leave_rows =>
             /\ leave_rows' = leave_rows + 1
             /\ last'.turn = "leave" /\ last'.sink = "ok"
             /\ leave_state' = EmptyDraft
       /\ (leave_state # EmptyDraft /\ leave_state' = EmptyDraft) =>
             leave_rows' = leave_rows + 1]_vars

\* C10 witness: two rows appended, the second after a draft built over
\* several turns was reset.
C10_Witness ==
    /\ leave_rows = 2
    /\ LeaveTurnDone
    /\ last.sink = "ok"
    /\ last.row[1] = "482"
    /\ leave_state = EmptyDraft

\* C11 as claimed: the record of a complete result has a string employee_id
\* and employee_name, an integer number_of_days, and the empty string as
\* comments when the merged draft's comments is null.
C11_RecordNormalised ==
    (Called /\ call.result.status = "complete") =>
        /\ call.result.leave_data.employee_id.t = "str"
        /\ call.result.leave_data.employee_name.t = "str"
        /\ call.result.leave_data.number_of_days.t = "int"
        /\ call.merged.comments = None =>
              call.result.leave_data.comments = Str("")

\* C12: after a turn that reached the router (an empty line does not),
\* active_flow is null when the router returned "", POLICY or FEEDBACK;
\* after a LEAVE turn it is LEAVE exactly when no record was submitted (the
\* draft in place is then incomplete) and null exactly when one was.
C12_ActiveFlowTracking ==
    /\ last.turn \in {"unknown", "policy", "feedback"} => active_flow = None
    /\ LeaveTurnDone =>
          /\ active_flow = Str("LEAVE") <=> last.sink # "ok"
          /\ active_flow = None <=> last.sink = "ok"
          /\ active_flow = Str("LEAVE") => ~IsComplete(leave_state)
    /\ active_flow = Str("LEAVE") =>
          last.turn \in {"leave", "empty_line", "error", "exit", "interrupt"}

\* C12 witness: after one submission cleared active_flow, a later LEAVE turn
\* whose sink write failed has set it to LEAVE again.
C12_Witness ==
    /\ LeaveTurnDone
    /\ last.sink = "failed"
    /\ leave_rows = 1
    /\ active_flow = Str("LEAVE")

\* a universal_agent call was observed
Routed == call.kind = "universal_agent"

\* C13: universal_agent returns POLICY, LEAVE, FEEDBACK or the empty string;
\* the empty string when the oracle call raises, when the message is empty
\* or whitespace only, and when the answer contains none of the three
\* labels; active_flow and the draft are as they were before the call.
C13_RouterOutputDomain ==
    Routed =>
        /\ call.intent \in {"POLICY", "LEAVE", "FEEDBACK", ""}
        /\ call.answer.raised => call.intent = ""
        /\ call.message \in {"", "  "} => call.intent = ""
        /\ (~call.answer.raised
            /\ \A i \in 1..Len(valid_intents) :
                  ~Contains(upper(call.answer.content), valid_intents[i]))
              => call.intent = ""
        /\ call.answer.content \in {"OTHER", ""} => call.intent = ""
        /\ active_flow = call.context
        /\ leave_state = call.draft

\* C13 witness: during a leave flow with a partly filled draft the oracle
\* answers with a sentence holding two labels and the router returns the
\* first of them.
C13_Witness ==
    /\ Routed
    /\ call.context = Str("LEAVE")
    /\ call.draft.employee_id # None
    /\ call.message = "I need leave"
    /\ call.answer.content = "Policy or Leave"
    /\ call.intent = "POLICY"

\* C14 as claimed: when the candidate's number_of_days is a text int()
\* cannot convert, the turn ends with status "missing" and every other
\* non-null candidate field is in the session draft.
C14_MalformedFieldIsMissing ==
    (/\ Called
     /\ call.resp.kind = "object"
     /\ Candidate.number_of_days.t = "str"
     /\ PyInt(Candidate.number_of_days) = Raised) =>
        /\ call.result.status = "missing"
        /\ \A f \in Fields \ {"number_of_days"} :
              Candidate[f] # None => leave_state[f] = Candidate[f]

\* C15 as claimed: the record of every complete result, the one handed to
\* the leave sink, has an integer number_of_days of at least 1.
C15_PositiveDayCount ==
    (Called /\ call.result.status = "complete") =>
        /\ call.result.leave_data.number_of_days.t = "int"
        /\ call.result.leave_data.number_of_days.v >= 1
        /\ last.sink = "ok" => last.row[6] \in {ToString(n) : n \in 1..31}

\* the words by which a prompt names each required slot, in the order id,
\* name, type, start date, end date or day count
SlotWords == <<"ID", "name", "reason", "start date", "end date">>

\* the required slots the draft still misses; the fifth slot is missing
\* while either the end date or the day count is
MissingSlots(draft) ==
    {i \in 1..4 : ~Truthy(draft[required[i]])}
    \cup (IF Truthy(draft.end_date) /\ Truthy(draft.number_of_days)
          THEN {} ELSE {5})

\* C16 as claimed: after a LEAVE turn whose oracle call succeeded and that
\* left the draft incomplete, the reply names exactly the slots the merged
\* draft still misses.
C16_DeterministicPrompt ==
    (Called /\ ~TookExceptBranch /\ call.result.status = "missing") =>
        \A i \in 1..Len(SlotWords) :
            Contains(last.reply, SlotWords[i])
                <=> i \in MissingSlots(leave_state)

\* a FEEDBACK turn was observed
FeedbackCalled == call.kind = "feedback_agent"

\* C17: a FEEDBACK turn hands exactly one row to the feedback sink, whether
\* the oracle answered with an object, raised, or returned text that is no
\* JSON object; in the last three cases the record is the utterance with
\* sentiment "neutral" and action items "No specific action required".
C17_FeedbackNeverLost ==
    FeedbackCalled =>
        /\ Len(call.rows) = 1
        /\ last.turn = "feedback" /\ last.sink \in {"ok", "failed"}
        /\ call.resp.kind # "object" =>
              /\ call.result =
                    [feedback |-> Str(call.message),
                     sentiment |-> Str("neutral"),
                     action_items |-> Str("No specific action required")]
              /\ call.rows[1] = <<call.message, "neutral",
                                  "No specific action required">>

\* C17 witness: the oracle's text was no JSON and the utterance itself went
\* to the sheet.
C17_Witness ==
    /\ FeedbackCalled
    /\ call.resp.kind = "bad_json"
    /\ last.sink = "ok"
    /\ call.rows = <<(<<"I need leave", "neutral",
                        "No specific action required">>)>>

\* the three sentiments, in the spellings of the modelled responses
Sentiments ==
    {"Positive", "positive", "POSITIVE", "Neutral", "neutral", "NEUTRAL",
     "Negative", "negative", "NEGATIVE"}

\* C18 as claimed: the sentiment of the row handed to the feedback sink is
\* one of the three sentiments, and it is neutral when the oracle's
\* sentiment is absent, null or none of the three.
C18_SentimentInEnum ==
    FeedbackCalled =>
        /\ call.rows[1][2] \in Sentiments
        /\ (\/ call.resp.sentiment \in {Absent, None}
            \/ call.resp.sentiment.v \notin Sentiments)
              => call.rows[1][2] \in {"Neutral", "neutral", "NEUTRAL"}

\* the last iteration was a turn: its line went to the router
TurnDone == last.turn \in {"unknown", "policy", "feedback", "leave"}

\* C19 as claimed: the loop has ended only after an input line that is an
\* exit word; after anything else it waits for the next line.
C19_EndsOnlyOnExitWord ==
    /\ pc = "exited" =>
          (last.turn = "exit" /\ last.line \in {"exit", "Quit", " BYE "})
    /\ last.turn # "exit" => pc = "input"

\* C19 amended: the loop has ended exactly after an exit word (the line
\* stripped and lower-cased is exit, quit or bye) or a keyboard interrupt;
\* after every other iteration, a failed oracle, a failed sink write and an
\* unexpected exception included, it waits for the next line; every line
\* that is neither empty nor an exit word is handed to the router, and only
\* such lines are.
C19_LoopSurvivesFailures ==
    /\ pc = "exited" <=> last.turn \in {"exit", "interrupt"}
    /\ pc \in {"input", "exited"}
    /\ last.turn = "exit" => last.line \in {"exit", "Quit", " BYE "}
    /\ (last.oracle_failed \/ last.sink = "failed"
        \/ last.turn \in {"unknown", "error"}) => pc = "input"
    /\ TurnDone => last.line \in {"I need leave"}
    /\ \A l \in InputLines \ {"", "  ", "exit", "Quit", " BYE "} :
          strip(l) \in RoutesUnknown \cup RoutesPolicy \cup RoutesFeedback
                       \cup RoutesLeave

\* C19 witness: after one record was submitted, a LEAVE turn whose oracle
\* call failed has left the loop waiting for input.
C19_Witness ==
    /\ LeaveTurnDone
    /\ last.oracle_failed
    /\ leave_rows = 1
    /\ pc = "input"

\* C20 as claimed: when active_flow is LEAVE and the message is a bare
\* identifier, date or number, universal_agent returns LEAVE.
C20_RouterContinuity ==
    (Routed /\ call.context = Str("LEAVE") /\ call.message \in BareData) =>
        call.intent = "LEAVE"

\* the draft passes the completeness test of line 220
PassesTest(draft) == \A f \in Required : Truthy(draft[f])

\* C21: the draft the loop starts with fails the completeness test, and
\* after a LEAVE turn from any stored draft the loop waits for input with a
\* draft that is again a stored draft, so at least one required field fails
\* the test; a merged draft that passes it was submitted and reset, or (the
\* sink write failed, or int() raised) the session draft is the pre-turn one.
C21_StoredDraftNeverComplete ==
    /\ EmptyDraft \in StoredDrafts
    /\ pc = "input" =>
          /\ \E f \in Required : ~Truthy(leave_state[f])
          /\ leave_state \in StoredDrafts
    /\ (Called /\ call.merged # Raised /\ PassesTest(call.merged)) =>
          \/ /\ last.sink = "ok"
             /\ leave_state = EmptyDraft
          \/ /\ last.sink = "failed" \/ TookExceptBranch
             /\ leave_state = call.current_state

\* C21 witness: the merged draft passed the test, int() raised on its day
\* count, and the loop waits for input with the partly filled pre-turn draft.
C21_Witness ==
    /\ Called
    /\ pc = "input"
    /\ call.merged # Raised
    /\ PassesTest(call.merged)
    /\ PyInt(call.merged.number_of_days) = Raised
    /\ call.current_state.employee_id # None
    /\ call.current_state.start_date = None
    /\ leave_state = call.current_state

====
